---- MODULE Spec2Model ----
(***************************************************************************)
(* Model of AdmonitionComponent (src/src/content.config.ts, lines 288-339) *)
(* the directive-to-callout transform of the theme.                        *)
(*                                                                         *)
(* JavaScript values are tagged records: t is "undefined", "null",         *)
(* "string" (v = the sequence of its characters), "number", "object",      *)
(* "array" (ref = the identity of the array object in the heap) or "node". *)
(* A string is a sequence of one-character strings, so that charAt, slice, *)
(* toUpperCase, join and trim are computed and not assumed.                *)
(***************************************************************************)
EXTENDS Integers, Sequences, FiniteSets, TLC

VARIABLES
    heap,     \* the array objects the caller holds: reference -> elements
    args,     \* the arguments of the last call
    result,   \* what the last call returned, Threw, or NoResult before any call
    before,   \* history: the heap as it was when the last call started
    earlier   \* history: "label" once a call before the last one took the label branch

vars == <<heap, args, result, before, earlier>>

----------------------------------------------------------------------------
(* Bounds of the input domain *)

\* longest body (children after the first element) of a directive
MaxBody == 2

----------------------------------------------------------------------------
(* String literals of the source, as character sequences *)

s_note == <<"n", "o", "t", "e">>
s_tip == <<"t", "i", "p">>
s_warning == <<"w", "a", "r", "n", "i", "n", "g">>
s_caution == <<"c", "a", "u", "t", "i", "o", "n">>
s_IMPORTANT == <<"I", "M", "P", "O", "R", "T", "A", "N", "T">>
s_danger == <<"d", "a", "n", "g", "e", "r">>
s_Note == <<"N", "o", "t", "e">>
s_Warning == <<"W", "a", "r", "n", "i", "n", "g">>
s_Caution == <<"C", "a", "u", "t", "i", "o", "n">>
s_BeCareful == <<"B", "e", " ", "c", "a", "r", "e", "f", "u", "l">>
s_ProTip == <<"P", "r", "o", " ", "T", "i", "p">>
s_TipProTip == <<"T", "i", "p", " ", "(", "P", "r", "o", " ", "T", "i", "p", ")">>

\* 'hidden', line 309
ClassHidden == <<"h", "i", "d", "d", "e", "n">>

\* 'Invalid admonition directive. Use: :::note <content> :::', line 310
UsageHint == <<"I", "n", "v", "a", "l", "i", "d", " ", "a", "d", "m", "o", "n", "i", "t", "i", "o", "n", " ", "d", "i", "r", "e", "c", "t", "i", "v", "e", ".", " ", "U", "s", "e", ":", " ", ":", ":", ":", "n", "o", "t", "e", " ", "<", "c", "o", "n", "t", "e", "n", "t", ">", " ", ":", ":", ":">>

\* the fixed part of `admonition bdm-${type}`, line 335
ClassPrefix == <<"a", "d", "m", "o", "n", "i", "t", "i", "o", "n", " ", "b", "d", "m", "-">>

\* 'bdm-title', line 336
ClassTitle == <<"b", "d", "m", "-", "t", "i", "t", "l", "e">>

----------------------------------------------------------------------------
(* JavaScript values *)

Undefined == [t |-> "undefined"]
Null == [t |-> "null"]
Str(s) == [t |-> "string", v |-> s]
Num(k) == [t |-> "number", n |-> k]
ArrayRef(r) == [t |-> "array", ref |-> r]

\* a hast text node {type: 'text', value}
TextNode(s) == [t |-> "node", type |-> "text", value |-> s]

\* a hast element node without a value field
Element(tag, cls, kids) ==
    [t |-> "node", type |-> "element", tagName |-> tag,
     class |-> cls, children |-> kids]

\* the outcome of a call that ended in a TypeError instead of a return
Threw == [t |-> "throw"]

NoResult == [t |-> "none"]

----------------------------------------------------------------------------
(* String primitives used by the source *)

LowerCase == <<"a", "b", "c", "d", "e", "f", "g", "h", "i", "j", "k", "l", "m", "n", "o", "p", "q", "r", "s", "t", "u", "v", "w", "x", "y", "z">>

UpperCase == <<"A", "B", "C", "D", "E", "F", "G", "H", "I", "J", "K", "L", "M", "N", "O", "P", "Q", "R", "S", "T", "U", "V", "W", "X", "Y", "Z">>

\* String.prototype.toUpperCase on one character
toUpperCase(c) ==
    IF \E i \in 1..Len(LowerCase) : LowerCase[i] = c
    THEN UpperCase[CHOOSE i \in 1..Len(LowerCase) : LowerCase[i] = c]
    ELSE c

\* str.charAt(0): the first character, or '' for the empty string
charAt0(s) == IF Len(s) = 0 THEN <<>> ELSE <<s[1]>>

\* str.slice(1) on a string or an array: a new sequence without the first element
slice1(s) == IF Len(s) = 0 THEN <<>> ELSE Tail(s)

WhiteSpace == {" ", "\t", "\n"}

RECURSIVE trimStart(_)
trimStart(s) ==
    IF Len(s) > 0 /\ s[1] \in WhiteSpace THEN trimStart(Tail(s)) ELSE s

RECURSIVE trimEnd(_)
trimEnd(s) ==
    IF Len(s) > 0 /\ s[Len(s)] \in WhiteSpace
    THEN trimEnd(SubSeq(s, 1, Len(s) - 1)) ELSE s

\* String.prototype.trim
trim(s) == trimEnd(trimStart(s))

\* Array.prototype.join('') over an array of strings
RECURSIVE join(_)
join(parts) == IF Len(parts) = 0 THEN <<>> ELSE Head(parts) \o join(Tail(parts))

----------------------------------------------------------------------------
(* src/src/content.config.ts *)

capitalize_All(str) == [i \in 1..Len(str) |-> toUpperCase(str[i])]

\* const capitalize = (str) => str.charAt(0).toUpperCase() + str.slice(1)
capitalize(str) ==
    [i \in 1..Len(charAt0(str)) |-> toUpperCase(charAt0(str)[i])] \o slice1(str)

\* capitalize(type) calls type.charAt: a TypeError unless type is a string
capitalizeThrows(type) == type.t # "string"


\* JavaScript truthiness, as used by `if (x)`, `x && y` and `x || y`
Truthy(v) ==
    CASE v.t = "boolean" -> v.b
      [] v.t = "string" -> Len(v.v) > 0
      [] v.t = "number" -> v.n # 0
      [] v.t \in {"undefined", "null"} -> FALSE
      [] OTHER -> TRUE

\* h('div', { class: 'hidden' }, 'Invalid admonition directive. ...'):
\* hastscript turns a string child into a text node
Fallback == Element("div", ClassHidden, <<TextNode(UsageHint)>>)

IsInvalid_NoEmptyCheck(hp, children) == children.t # "array"

\* !Array.isArray(children) || children.length === 0
IsInvalid(hp, children) ==
    children.t # "array" \/ Len(hp[children.ref]) = 0

HasDirectiveLabel_AnyObject(properties) == properties.t = "object"

\* properties?.['has-directive-label']
HasDirectiveLabel(properties) ==
    properties.t = "object" /\ Truthy(properties.hasDirectiveLabel)

\* children[0]: undefined when the array is empty
elem0(a) == IF Len(a) = 0 THEN Undefined ELSE a[1]

SliceLabel_InPlace(hp, ref) ==
    [heap |-> [hp EXCEPT ![ref] = slice1(@)], label |-> elem0(hp[ref]),
     children |-> slice1(hp[ref])]

\* label = children[0]; children = children.slice(1): the array object is
\* read, the parameter is rebound to a fresh copy without the first element
SliceLabel(hp, ref) ==
    [heap |-> hp, label |-> elem0(hp[ref]), children |-> slice1(hp[ref])]

\* label && label.children && label.children.length > 0
HasLabelChildren(label) ==
    /\ label.t = "node"
    /\ "children" \in DOMAIN label
    /\ Len(label.children) > 0

\* child.value reads a property of child: a TypeError when child is null or
\* undefined
LabelThrows(label) ==
    /\ HasLabelChildren(label)
    /\ \E i \in 1..Len(label.children) :
          label.children[i].t \in {"null", "undefined"}

\* child => child.value || ''
ValueOrEmpty(child) ==
    IF "value" \in DOMAIN child THEN child.value ELSE <<>>

labelText_NoTrim(label) ==
    join([i \in 1..Len(label.children) |-> ValueOrEmpty(label.children[i])])

\* label.children.map(child => child.value || '').join('').trim()
labelText(label) ==
    trim(join([i \in 1..Len(label.children) |-> ValueOrEmpty(label.children[i])]))

titleText_NoBlankCheck(type, label) ==
    IF HasLabelChildren(label)
    THEN capitalize(type) \o <<" ", "(">> \o labelText(label) \o <<")">>
    ELSE capitalize(type)

\* the value of titleText after the label block: `${capitalize(type)}
\* (${labelText})` when the label has text, else capitalize(type)
titleText(type, label) ==
    IF HasLabelChildren(label) /\ Len(labelText(label)) > 0
    THEN capitalize(type) \o <<" ", "(">> \o labelText(label) \o <<")">>
    ELSE capitalize(type)

Assemble_NoPrefix(type, title, children) ==
    Element("blockquote", <<"a", "d", "m", "o", "n", "i", "t", "i", "o", "n", "-">> \o type,
            <<Element("div", ClassTitle, <<TextNode(title)>>)>> \o children)

\* h('blockquote', { class: `admonition bdm-${type}` },
\*   [h('div', { class: 'bdm-title' }, titleText), ...children])
Assemble(type, title, children) ==
    Element("blockquote", ClassPrefix \o type,
            <<Element("div", ClassTitle, <<TextNode(title)>>)>> \o children)

LabelBlock_KeepUnusedLabel(hp, properties, children) ==
    IF HasDirectiveLabel(properties) /\ HasLabelChildren(elem0(hp[children.ref]))
    THEN SliceLabel(hp, children.ref)
    ELSE [heap |-> hp, label |-> Null, children |-> hp[children.ref]]

LabelBlock_Shift(hp, properties, children) ==
    IF HasDirectiveLabel(properties)
    THEN SliceLabel_InPlace(hp, children.ref)
    ELSE [heap |-> hp, label |-> Null, children |-> hp[children.ref]]

\* let label = null, then the block under `if (properties?.[...])`: the
\* heap, label and the local `children` after it
LabelBlock(hp, properties, children) ==
    IF HasDirectiveLabel(properties)
    THEN SliceLabel(hp, children.ref)
    ELSE [heap |-> hp, label |-> Null, children |-> hp[children.ref]]

\* AdmonitionComponent(properties, children, type) run on the heap hp:
\* the heap it leaves and what it returns (ret = Threw for a TypeError)
AdmonitionComponent(hp, properties, children, type) ==
    IF IsInvalid(hp, children)
    THEN [heap |-> hp, ret |-> Fallback]
    ELSE IF capitalizeThrows(type)
    THEN [heap |-> hp, ret |-> Threw]
    ELSE LET lb == LabelBlock(hp, properties, children)
         IN  IF LabelThrows(lb.label)
             THEN [heap |-> lb.heap, ret |-> Threw]
             ELSE [heap |-> lb.heap,
                   ret |-> Assemble(type.v, titleText(type.v, lb.label), lb.children)]

----------------------------------------------------------------------------
(* The inputs the upstream parser can hand to the component *)

Bool(b) == [t |-> "boolean", b |-> b]

\* a properties object; flag is the value of its 'has-directive-label' key
\* (Undefined when the key is absent)
Props(flag) == [t |-> "object", hasDirectiveLabel |-> flag]

PropertiesValues ==
    {Null, Props(Undefined), Props(Bool(TRUE)), Props(Bool(FALSE))}

TypeValues ==
    {Str(s_note), Str(s_tip), Str(s_warning), Str(s_caution), Str(s_IMPORTANT),
     Str(s_danger), Str(<<>>), Undefined, Num(5)}

NoClass == <<>>

P1 == TextNode(s_BeCareful)
P2 == Element("p", NoClass, <<TextNode(s_note)>>)

BodyNodes == {P1, P2}

\* the label paragraph of :::tip[Pro Tip]
LabelProTip == Element("p", NoClass, <<TextNode(s_ProTip)>>)

\* a label with inline formatting and surrounding blanks: " Pro " <em/> "Tip "
LabelMixed ==
    Element("p", NoClass,
            <<TextNode(<<" ", "P", "r", "o", " ">>),
              Element("em", NoClass, <<TextNode(s_note)>>),
              TextNode(<<"T", "i", "p", " ">>)>>)

LabelBlank == Element("p", NoClass, <<TextNode(<<" ", "\t">>), TextNode(<<" ">>)>>)
LabelNoText == Element("p", NoClass, <<Element("em", NoClass, <<>>)>>)
LabelNoChildren == Element("p", NoClass, <<>>)
LabelNullChild == Element("p", NoClass, <<TextNode(s_note), Null>>)

FirstNodes ==
    {P1, P2, LabelProTip, LabelMixed, LabelBlank,
     LabelNoText, LabelNoChildren, LabelNullChild, Null}

SeqUpTo(S, n) == UNION {[1..k -> S] : k \in 0..n}

\* the contents of the children arrays
ChildrenArrays ==
    {<<>>} \cup {<<f>> \o b : f \in FirstNodes, b \in SeqUpTo(BodyNodes, MaxBody)}

Refs == {"children"}

ChildrenValues == {ArrayRef(r) : r \in Refs} \cup {Null, Str(s_note)}

----------------------------------------------------------------------------
(* The state machine: the parser's array lives in the heap; each step is   *)
(* one synchronous call of the component by the markdown pipeline.         *)

Init ==
    /\ heap \in [Refs -> ChildrenArrays]
    /\ args = [properties |-> Null, children |-> Null, type |-> Undefined]
    /\ result = NoResult
    /\ before = heap
    /\ earlier = "none"

\* the last call took the label branch on a non-empty array
ConsumedLabel ==
    /\ result.t # "none"
    /\ ~IsInvalid(before, args.children)
    /\ ~capitalizeThrows(args.type)
    /\ HasDirectiveLabel(args.properties)

\* one call AdmonitionComponent(properties, children, type), start to return
Call(properties, children, type) ==
    LET r == AdmonitionComponent(heap, properties, children, type)
    IN  /\ args' = [properties |-> properties, children |-> children, type |-> type]
        /\ heap' = r.heap
        /\ result' = r.ret
        /\ before' = heap
        /\ earlier' = IF earlier = "label" \/ ConsumedLabel THEN "label" ELSE "none"

Next ==
    \E properties \in PropertiesValues, children \in ChildrenValues, type \in TypeValues :
        Call(properties, children, type)

Spec == Init /\ [][Next]_vars

----------------------------------------------------------------------------
(* Reading a finished call *)

Called == result.t # "none"

Returned == result.t = "node"

\* the caller's array is a non-empty sequence (the guard of line 306 passes)
NonEmptyInput ==
    args.children.t = "array" /\ Len(before[args.children.ref]) > 0

\* the elements of the caller's array when the call started
Input == before[args.children.ref]

LabelFlag == args.properties.t = "object" /\ args.properties.hasDirectiveLabel = Bool(TRUE)

\* the directive of the data model: kind is a string, and when a label is
\* announced the children of the label node are nodes
WellFormed ==
    /\ args.type.t = "string"
    /\ LabelFlag /\ "children" \in DOMAIN Input[1]
          => \A i \in 1..Len(Input[1].children) : Input[1].children[i].t = "node"

IsCallout == Returned /\ result.tagName = "blockquote"

\* the text of the title node, the first child of the callout
TitleOf == result.children[1].children[1].value

\* the children of the callout after the title node
BodyOf == Tail(result.children)

IsTitleNode(n) ==
    /\ n.t = "node" /\ n.type = "element" /\ n.class = ClassTitle
    /\ Len(n.children) = 1 /\ n.children[1].type = "text"

\* the concatenation of the text values of a label node's children, a child
\* without a value counting as the empty string
RECURSIVE Flatten(_)
Flatten(kids) ==
    IF Len(kids) = 0 THEN <<>>
    ELSE (IF "value" \in DOMAIN Head(kids) THEN Head(kids).value ELSE <<>>)
         \o Flatten(Tail(kids))

IsBlank(s) == \A i \in 1..Len(s) : s[i] \in WhiteSpace

\* the flattened text of the first child, <<>> when it has no children
FlatLabel ==
    IF Input[1].t = "node" /\ "children" \in DOMAIN Input[1]
    THEN Flatten(Input[1].children) ELSE <<>>

Prefix(s, n) == SubSeq(s, 1, n)
Suffix(s, n) == SubSeq(s, Len(s) - n + 1, Len(s))

----------------------------------------------------------------------------
(* Claims *)

\* C1: AdmonitionComponent is total: every call returns a node, none throws
C1_NeverThrows == Called => Returned

\* C2: when children is empty or not a sequence the call returns the fallback
\* node (class 'hidden', usage hint), whatever kind and the label flag are,
\* also for a kind whose capitalization would throw
C2_GuardFirst ==
    Called /\ ~NonEmptyInput
        => /\ result = Fallback
           /\ result.class = ClassHidden
           /\ result.children = <<TextNode(UsageHint)>>

C2_Witness ==
    /\ Called /\ args.children.t = "array" /\ Len(Input) = 0
    /\ args.type = Undefined /\ LabelFlag
    /\ result = Fallback

C3_Scenario ==
    /\ Called /\ NonEmptyInput
    /\ args.type = Str(s_caution) /\ ~LabelFlag
    /\ Input = <<TextNode(s_BeCareful)>>

\* C3 as stated: kind "caution", no label, children [textNode("Be careful")]
\* gives a container of class admonition-caution holding the title "Caution"
\* and then textNode("Be careful")
C3_AsStated ==
    C3_Scenario
        => /\ Returned
           /\ result.class = <<"a", "d", "m", "o", "n", "i", "t", "i", "o", "n", "-">> \o s_caution
           /\ IsTitleNode(result.children[1]) /\ TitleOf = s_Caution
           /\ BodyOf = <<TextNode(s_BeCareful)>>

\* C3 amended: the same scenario gives a blockquote of class
\* "admonition bdm-caution" holding the title "Caution" and then
\* textNode("Be careful") and nothing else
C3_EndToEnd ==
    C3_Scenario
        => /\ IsCallout
           /\ result.class = <<"a", "d", "m", "o", "n", "i", "t", "i", "o", "n", " ", "b", "d", "m", "-", "c", "a", "u", "t", "i", "o", "n">>
           /\ IsTitleNode(result.children[1]) /\ TitleOf = s_Caution
           /\ BodyOf = <<TextNode(s_BeCareful)>>

C3_Witness == C3_Scenario /\ IsCallout /\ Len(result.children) = 2

C4_Case ==
    /\ Called /\ NonEmptyInput /\ WellFormed /\ LabelFlag
    /\ ~IsBlank(FlatLabel)

\* C4: with the label flag and a label whose flattened, trimmed text T is
\* not empty, the title is "<CapitalizedKind> (T)" and the body is the input
\* without its first element; kind "tip" with label "Pro Tip" gives
\* "Tip (Pro Tip)"
C4_LabelTitle ==
    C4_Case
        => /\ IsCallout
           /\ TitleOf = capitalize(args.type.v) \o <<" ", "(">> \o trim(FlatLabel) \o <<")">>
           /\ BodyOf = Tail(Input)
           /\ args.type = Str(s_tip) /\ trim(FlatLabel) = s_ProTip => TitleOf = s_TipProTip

C4_Witness ==
    /\ C4_Case /\ args.type = Str(s_tip) /\ Input[1] = LabelMixed
    /\ TitleOf = s_TipProTip /\ BodyOf = <<P1, P2>>

C5_Case ==
    /\ Called /\ NonEmptyInput /\ WellFormed /\ LabelFlag
    /\ Input[1].t = "node" /\ Input[1].type = "element"
    /\ IsBlank(FlatLabel)

\* C5: with the label flag and a label whose flattened text is empty or
\* blank, the title is the capitalized kind, without parentheses
C5_BlankLabel ==
    C5_Case
        => /\ IsCallout
           /\ TitleOf = capitalize(args.type.v)
           /\ \A i \in 1..Len(TitleOf) : TitleOf[i] \notin {"(", ")"}
           /\ args.type = Str(s_warning) => TitleOf = s_Warning

C5_Witness ==
    /\ C5_Case /\ Input[1] = LabelBlank /\ args.type = Str(s_warning)
    /\ TitleOf = s_Warning

C6_Case ==
    /\ Called /\ NonEmptyInput /\ WellFormed
    /\ ~(args.properties.t = "object" /\ args.properties.hasDirectiveLabel = Bool(TRUE))

\* C6: without the label flag (false, absent, or no properties at all) the
\* body is the input children unchanged and in order, after the title node,
\* and the title is the capitalized kind
C6_NoLabel ==
    C6_Case
        => /\ IsCallout
           /\ IsTitleNode(result.children[1])
           /\ BodyOf = Input
           /\ TitleOf = capitalize(args.type.v)

C6_Witness ==
    /\ C6_Case /\ args.properties = Props(Bool(FALSE))
    /\ Input = <<LabelProTip, P1, P2>> /\ BodyOf = Input
    /\ args.type = Str(s_note) /\ TitleOf = s_Note

\* C7: after a call the caller's array has the elements it had before it
C7_NoMutation == Called => heap = before

C7_Witness ==
    /\ Called /\ NonEmptyInput /\ LabelFlag /\ IsCallout
    /\ Len(Input) = 3 /\ Len(BodyOf) = 2
    /\ Len(heap[args.children.ref]) = 3

C8_Case == Called /\ NonEmptyInput /\ WellFormed

\* C8: for every kind string the class ends with kind verbatim, the title
\* starts with capitalize(kind), and capitalize changes the first character
\* only: it is idempotent, "note" gives "Note", "IMPORTANT" stays
C8_KindVerbatim ==
    C8_Case
        => LET kind == args.type.v
           IN  /\ IsCallout
               /\ result.class = ClassPrefix \o kind
               /\ Suffix(result.class, Len(kind)) = kind
               /\ Prefix(TitleOf, Len(kind)) = capitalize(kind)
               /\ capitalize(capitalize(kind)) = capitalize(kind)
               /\ Len(capitalize(kind)) = Len(kind)
               /\ \A i \in 2..Len(kind) : capitalize(kind)[i] = kind[i]
               /\ kind = s_note => capitalize(kind) = s_Note
               /\ kind = s_IMPORTANT => capitalize(kind) = s_IMPORTANT

C8_Witness ==
    /\ C8_Case /\ args.type = Str(s_danger) /\ IsCallout
    /\ result.class = ClassPrefix \o s_danger
    /\ TitleOf = <<"D", "a", "n", "g", "e", "r">>

\* C9: calls are independent: a call after other calls returns what it
\* returns alone, so the last call run again after the next one returns the
\* same, and two calls in a row with equal arguments return the same
C9_Independent ==
    [][Called =>
          /\ AdmonitionComponent(heap', args.properties, args.children, args.type).ret
                = result
          /\ args' = args => result' = result]_vars

C9_Witness ==
    /\ earlier = "label" /\ LabelFlag /\ NonEmptyInput /\ IsCallout
    /\ Len(Input) = 3 /\ BodyOf = <<P1, P2>>

C10_Case == Called /\ NonEmptyInput /\ WellFormed /\ LabelFlag

\* C10: with the label flag the first child leaves the body whether or not
\* it gave a title: the callout has as many children as the input, and one
\* child alone gives a callout holding only the title, not the fallback
C10_FirstChildRemoved ==
    C10_Case
        => /\ IsCallout
           /\ Len(result.children) = Len(Input)
           /\ BodyOf = Tail(Input)
           /\ Len(Input) = 1 => result.children = <<result.children[1]>> /\ result # Fallback

C10_Witness ==
    /\ C10_Case /\ Input = <<Null>> /\ IsCallout
    /\ Len(result.children) = 1 /\ TitleOf = capitalize(args.type.v)

====
